---- MODULE Spec2Model ----
(***************************************************************************)
(* simple-logmate: the Logger of src/src/logger.js.                        *)
(*                                                                         *)
(* The model follows one Logger instance: its configuration as the         *)
(* constructor leaves it, the pending queue and the isWriting flag of the  *)
(* file sink, every activation of the async function writeLogs with the    *)
(* await it is suspended at, the log file and its archives, the console,   *)
(* and the wall clock that names the archives.                             *)
(*                                                                         *)
(* Granularity: JavaScript runs each callback to completion, so one action *)
(* is one synchronous run: a log call up to its return (which includes the *)
(* synchronous prefix of writeLogs up to its first await), or the          *)
(* completion of one file operation together with the continuation of the  *)
(* drain up to the next await or to its end.                               *)
(***************************************************************************)
EXTENDS Integers, Sequences, FiniteSets, TLC

(***************************************************************************)
(* Bounds of the exploration                                               *)
(***************************************************************************)
\* log calls explored in one behaviour of the file sink
MaxCalls == 3
\* log calls explored in one behaviour of the dispatcher
MaxDispatchCalls == 2
\* the wall clock takes the values 0..MaxClock
MaxClock == 1
\* activations of writeLogs the model can hold at once
MaxDrains == 2
\* the message of a log call has 0..MaxMsgLen bytes
MaxMsgLen == 1
\* Loggers of one process: this one and MaxLoggers - 1 others
MaxLoggers == 2
\* servers created in one behaviour
MaxServers == 1
\* requests received and direct logRequest calls in one behaviour
MaxRequests == 1
\* the templates of the direct format calls have 0..MaxTemplateLen characters
MaxTemplateLen == 4

(***************************************************************************)
(* Values                                                                  *)
(***************************************************************************)
\* JavaScript null, as a value of this.filePath
Null == "<null>"

\* 1024 * 1024, the default of maxFileSize
DefaultMaxFileSize == 1048576

\* '[{timestamp}] {level}: {message}', the default of format
DefaultFormat ==
    <<"[", "{", "timestamp", "}", "]", " ", "{", "level", "}", ":", " ",
      "{", "message", "}">>

\* const colors
colors ==
    [debug |-> "\\x1b[36m", info |-> "\\x1b[32m", warn |-> "\\x1b[33m",
     error |-> "\\x1b[31m", reset |-> "\\x1b[0m"]

\* an option is absent (<<>>) or given (<<v>>)
Absent == <<>>
Given(v) == <<v>>

\* options.x || d, for a string option: undefined and '' are falsy
OrString(opt, d) == IF opt = Absent \/ opt[1] = "" THEN d ELSE opt[1]
\* options.x || d, for a number option: undefined and 0 are falsy
OrNumber(opt, d) == IF opt = Absent \/ opt[1] = 0 THEN d ELSE opt[1]
\* options.x || d, for an array option: only undefined is falsy
OrArray(opt, d) == IF opt = Absent THEN d ELSE opt[1]
\* options.x || d, for a template (a string as a sequence of characters)
OrTemplate(opt, d) == IF opt = Absent \/ opt[1] = <<>> THEN d ELSE opt[1]
\* options.x || false, for a boolean option
OrFalse(opt) == IF opt = Absent THEN FALSE ELSE opt[1]

\* Array.prototype.includes
Includes(arr, x) == \E i \in 1..Len(arr) : arr[i] = x

\* Array.prototype.indexOf: the first 0-based position of x, or -1
IndexOf(arr, x) ==
    IF Includes(arr, x)
    THEN (CHOOSE i \in 1..Len(arr) :
            arr[i] = x /\ \A j \in 1..(i - 1) : arr[j] # x) - 1
    ELSE -1

\* the levels array of shouldLog
levels == <<"debug", "info", "warn", "error">>

(***************************************************************************)
(* Inputs                                                                  *)
(***************************************************************************)
\* values of options.level: absent, two of the four levels, an unknown one
LevelOpts == {Absent, Given("debug"), Given("warn"), Given("verbose")}
\* values of options.filePath
PathOpts == {Absent, Given(""), Given("app.log")}
\* values of options.maxFileSize (bytes)
SizeOpts == {Absent, Given(0), Given(1)}
\* values of options.transports
TransportOpts ==
    {Absent, Given(<<>>), Given(<<"file">>), Given(<<"console", "file">>),
     Given(<<"file", "console">>), Given(<<"console", "console">>)}
\* the level argument of a log call: the four levels and an unknown one
LogLevels == {"debug", "info", "warn", "error", "verbose"}

Options ==
    [level : LevelOpts, format : {Absent}, filePath : PathOpts, maxFileSize : SizeOpts,
     transports : TransportOpts, httpRequest : {Absent}, metadata : {Absent}]

\* the configurations with a working file sink that rotates within the bounds
SinkOptions ==
    [level : {Absent}, format : {Given(<<"{", "message", "}">>)},
     filePath : {Given("app.log")}, maxFileSize : {Given(2)},
     transports : {Given(<<"file">>), Given(<<"file", "console">>)},
     httpRequest : {Absent}, metadata : {Absent}]
\* the level argument of the log calls made on them
SinkLevels == {"info"}

\* the configurations the HTTP instrumentation is explored with
HttpOptions ==
    [level : {Absent, Given("debug"), Given("error")},
     format : {Given(<<"[", "{", "level", "}", "]", " ", "{", "message", "}">>)},
     filePath : {Absent}, maxFileSize : {Absent}, transports : {Absent},
     httpRequest : {Absent, Given(FALSE), Given(TRUE)}, metadata : {Absent}]
\* '[{timestamp}] [{level}] [{service}] {message}', the custom format of the README
ServiceFormat ==
    <<"[", "{", "timestamp", "}", "]", " ", "[", "{", "level", "}", "]", " ",
      "[", "{", "service", "}", "]", " ", "{", "message", "}">>
\* the configurations the templates are explored with: console and a file
\* that rotates after every line of more than one byte, the default and the
\* custom format, with the metadata of the README
TemplateOptions ==
    [level : {Given("debug")}, format : {Absent, Given(ServiceFormat)},
     filePath : {Given("app.log")}, maxFileSize : {Given(1)},
     transports : {Given(<<"console", "file">>)}, httpRequest : {Absent},
     metadata : {Given([service |-> <<"user-service">>])}]

\* the level argument of the log calls made on them
TemplateLevels == {"debug", "info", "warn", "error"}

\* what logRequest reads of a request and its response; ip is '' when the
\* request has no ip property
HttpRequests ==
    {[method |-> "GET", url |-> "/test", statusCode |-> 200, userAgent |-> "test-agent",
      ip |-> "", remoteAddress |-> "127.0.0.1"],
     [method |-> "POST", url |-> "/api", statusCode |-> 404, userAgent |-> "curl",
      ip |-> "10.0.0.1", remoteAddress |-> "127.0.0.1"]}
\* the responseTime argument of a direct logRequest call
ManualTimes == {100}

\* Strings are sequences of characters; a longer token stands for the
\* characters it is written with. The templates of the direct format calls:
\* braces, two word characters, one character that \w does not match.
Alphabet == {"{", "}", "a", "b", "-"}
Templates == UNION {[1..n -> Alphabet] : n \in 0..MaxTemplateLen}
\* the data objects of the direct format calls: any own keys among these
\* (the last one shadows Object.prototype.hasOwnProperty), with string values
DataKeys == {"a", "ab", "hasOwnProperty"}
DataValues == {<<>>, <<"x">>, <<"{", "a", "}">>}
Datas == UNION {[keys -> DataValues] : keys \in SUBSET DataKeys}

VARIABLES
    constructed,  \* TRUE iff the constructor returned an instance
    format,       \* this.format, the template of the lines
    level,        \* this.level
    filePath,     \* this.filePath
    maxFileSize,  \* this.maxFileSize
    transports,   \* this.transports
    httpRequest,  \* this.httpRequest
    logQueue,     \* this.logQueue: formatted lines awaiting their append
    isWriting,    \* this.isWriting
    drains,       \* activations of writeLogs: the await each is suspended at
    unhandled,    \* promises of writeLogs that were rejected (nobody awaits them)
    console,      \* the calls made on the console, in order
    liveExists,   \* a file exists at filePath
    liveFile,     \* the lines of the file at filePath
    archives,     \* the rotated files, in rotation order
    clock,        \* the wall clock (milliseconds)
    calls,        \* log calls made so far
    lastCall,     \* the arguments of the latest log call
    issued,       \* log calls admitted so far; numbers the formatted lines
    appended,     \* history: the lines whose append succeeded, in order
    dropped,      \* history: the lines whose append failed, in order
    rotationFailures,  \* history: failed stat or rename operations
    http,         \* the process: its environment, http.createServer, servers, requests
    setupPending, \* the constructor has yet to run its httpRequest set-up
    todo,         \* the log calls a running logRequest has yet to make
    made          \* history: the log calls made by logRequest, in order

config == <<constructed, level, format, filePath, maxFileSize, transports, httpRequest>>
\* the run of the constructor's set-up and of logRequest
run == <<setupPending, todo, made>>
sink == <<logQueue, isWriting, drains, unhandled>>
files == <<liveExists, liveFile, archives>>
history == <<appended, dropped, rotationFailures>>
vars ==
    <<config, sink, console, files, clock, calls, lastCall, issued, history, http, run>>


(***************************************************************************)
(* utils.js: format                                                        *)
(***************************************************************************)
\* the characters of these strings that \w does not match
NonWord == {"{", "}", "[", "]", " ", ":", "-"}
IsWord(c) == c \notin NonWord

RECURSIVE WordRun(_, _)
\* \w+ from position i of t: the position after the longest run of word
\* characters that starts there
WordRun(t, i) == IF i <= Len(t) /\ IsWord(t[i]) THEN WordRun(t, i + 1) ELSE i

RECURSIVE Join(_, _, _)
\* the characters i .. j - 1 of t, as the key the capture group yields
Join(t, i, j) == IF i >= j THEN "" ELSE t[i] \o Join(t, i + 1, j)

\* /{(\w+)}/ tried at position i of t
Match(t, i) ==
    LET e == WordRun(t, i + 1)
    IN IF t[i] = "{" /\ e > i + 1 /\ e <= Len(t) /\ t[e] = "}"
       THEN [found |-> TRUE, key |-> Join(t, i + 1, e), next |-> e + 1]
       ELSE [found |-> FALSE, key |-> "", next |-> i + 1]

\* data.hasOwnProperty is not a function: an own property of that name
\* with a string value shadows the inherited method, and the call throws
HasOwnPropertyThrows(data) == "hasOwnProperty" \in DOMAIN data

\* (match, key) => data.hasOwnProperty(key) ? data[key] : ''
Callback(data, key) ==
    IF HasOwnPropertyThrows(data) THEN [threw |-> TRUE, value |-> <<>>]
    ELSE [threw |-> FALSE, value |-> IF key \in DOMAIN data THEN data[key] ELSE <<>>]

RECURSIVE Replace(_, _, _)
\* template.replace(/{(\w+)}/g, callback) from position i on: matches are
\* found left to right and replaced by what the callback returns, which is
\* not scanned again; the other characters are copied
Replace(t, data, i) ==
    IF i > Len(t) THEN [threw |-> FALSE, value |-> <<>>]
    ELSE LET m == Match(t, i)
             piece == IF m.found THEN Callback(data, m.key)
                      ELSE [threw |-> FALSE, value |-> <<t[i]>>]
             rest == Replace(t, data, m.next)
         IN IF piece.threw \/ rest.threw THEN [threw |-> TRUE, value |-> <<>>]
            ELSE [threw |-> FALSE, value |-> piece.value \o rest.value]

\* function format(template, data)
Format(template, data) == Replace(template, data, 1)

(***************************************************************************)
(* Lines, console calls, activations                                       *)
(***************************************************************************)
\* getLocalTimestamp(): the text of the current time
Timestamp == <<ToString(clock)>>

\* args.map(...).join(' '): a message of len characters
Message(len) == [i \in 1..len |-> "x"]

\* formattedMessage = format(this.format, {timestamp, level, message})
FormattedMessage(lvl, len) ==
    Format(format, [timestamp |-> Timestamp, level |-> <<lvl>>,
                    message |-> Message(len)]).value

\* A formatted line: the id numbers the admitted log call that produced it,
\* len is the length of the message in bytes, text the formatted message.
Line(id, lvl, len) ==
    [id |-> id, level |-> lvl, len |-> len, text |-> FormattedMessage(lvl, len)]
NoLine == [id |-> 0, level |-> "", len |-> 0, text |-> <<>>]

\* colors[level], 'undefined' in a string when the level has no colour
Color(lvl) == IF lvl \in DOMAIN colors THEN colors[lvl] ELSE "undefined"

\* colors[level] + text + colors.reset
Colored(lvl, text) == <<Color(lvl)>> \o text \o <<colors.reset>>

\* appendFile writes message + '\n'; the fixed characters a template puts
\* around the message are not counted
Bytes(line) == line.len + 1

RECURSIVE Size(_)
\* stats.size of a file holding these lines
Size(lines) == IF lines = <<>> THEN 0 ELSE Bytes(Head(lines)) + Size(Tail(lines))

\* One call console[method](...). kind tells what was printed: "line" (the
\* coloured formatted message), "stackTrace" (the 'Stack trace:' notice),
\* "errorObject" (the Error itself), "writeError" ('Error writing to log
\* file:'), "rotationError" ('Error during log rotation:'). id is the id of
\* the line of the log call that printed it, 0 for the sink's own reports;
\* text is what a "line" or "stackTrace" call printed.
ConsoleCall(method, kind, id) ==
    [method |-> method, kind |-> kind, id |-> id, text |-> <<>>]

DrainIds == 1..MaxDrains

\* An activation of writeLogs is suspended at `await appendFile` ("append"),
\* or inside checkFileSize at `await stat` ("stat") or `await rename`
\* ("rename"); "idle" is a slot that holds no activation. message is the
\* line it shifted, target the archive name the rename was issued with.
Activation(pc, message, target) == [pc |-> pc, message |-> message, target |-> target]
Idle == Activation("idle", NoLine, 0)

Active(d) == {a \in DrainIds : d[a].pc # "idle"}
InFlight(d) == {a \in DrainIds : d[a].pc \in {"append", "stat", "rename"}}

(***************************************************************************)
(* The process the Logger lives in                                         *)
(***************************************************************************)
\* What setupAutoRequestLogging finds: whether `process` is defined, the
\* value of process.env.NODE_ENV, and what require('http') gives: "ok" (a
\* module with createServer), "noCreateServer" (a module without it),
\* "missing" (require throws).
Env(hasProcess, nodeEnv, module) ==
    [process |-> hasProcess, nodeEnv |-> nodeEnv, module |-> module]

\* a Node process outside tests
NodeEnv == Env(TRUE, "production", "ok")

\* The process at start: wrappers lists the Loggers whose wrapper has been
\* assigned to http.createServer, the innermost first; servers holds, for
\* each server created, the Loggers whose 'request' listener it carries, in
\* the order they were attached; requests the requests received; calls the
\* logRequest calls made, on any Logger; throws counts the createServer
\* calls that threw inside a wrapper.
\* no direct call of format was made
NoFormatCall ==
    [made |-> FALSE, template |-> <<>>, data |-> [k \in {} |-> <<>>],
     result |-> [threw |-> FALSE, value |-> <<>>]]

Process(env) ==
    [env |-> env, wrappers |-> <<>>, servers |-> <<>>, requests |-> <<>>,
     calls |-> <<>>, throws |-> 0, formatCall |-> NoFormatCall]

\* the application calls format(template, data) itself
FormatCall ==
    /\ ~http.formatCall.made
    /\ \E template \in Templates, data \in Datas :
          http' = [http EXCEPT !.formatCall =
                      [made |-> TRUE, template |-> template, data |-> data,
                       result |-> Format(template, data)]]
    /\ UNCHANGED <<config, sink, console, files, clock, calls, lastCall, issued, history,
                   run>>

(***************************************************************************)
(* The constructor                                                         *)
(***************************************************************************)
\* The constructor's only throwing statement is mkdirSync, reached when the
\* file transport is set up and the directory is missing.
ConstructorThrows(options, dirExists, mkdirOk) ==
    /\ OrString(options.filePath, Null) # Null
    /\ Includes(OrArray(options.transports, <<"console">>), "file")
    /\ ~dirExists
    /\ ~mkdirOk

\* new Logger(options), in a file system with nothing at filePath yet
Constructor(options, dirExists, mkdirOk) ==
    /\ constructed = ~ConstructorThrows(options, dirExists, mkdirOk)
    /\ level = OrString(options.level, "info")
    /\ format = OrTemplate(options.format, DefaultFormat)
    /\ filePath = OrString(options.filePath, Null)
    /\ maxFileSize = OrNumber(options.maxFileSize, DefaultMaxFileSize)
    /\ transports = OrArray(options.transports, <<"console">>)
    /\ httpRequest = OrFalse(options.httpRequest)
    /\ setupPending =
         (OrFalse(options.httpRequest) /\ ~ConstructorThrows(options, dirExists, mkdirOk))
    /\ todo = <<>>
    /\ made = <<>>
    /\ logQueue = <<>>
    /\ isWriting = FALSE
    /\ drains = [a \in DrainIds |-> Idle]
    /\ unhandled = 0
    /\ console = <<>>
    /\ liveExists = FALSE
    /\ liveFile = <<>>
    /\ archives = <<>>
    /\ clock = 0
    /\ calls = 0
    /\ lastCall = ""
    /\ issued = 0
    /\ appended = <<>>
    /\ dropped = <<>>
    /\ rotationFailures = 0

(***************************************************************************)
(* The file sink: logToFile, writeLogs, checkFileSize                      *)
(*                                                                         *)
(* The synchronous code is written as functions of st, the part of the     *)
(* state it reads and writes:                                              *)
(*   [logQueue, isWriting, drains, unhandled, console]                     *)
(***************************************************************************)
Cur ==
    [logQueue |-> logQueue, isWriting |-> isWriting, drains |-> drains,
     unhandled |-> unhandled, console |-> console]

Commit(st) ==
    /\ logQueue' = st.logQueue
    /\ isWriting' = st.isWriting
    /\ drains' = st.drains
    /\ unhandled' = st.unhandled
    /\ console' = st.console

\* finally { this.isWriting = false }, and the activation is over
Finally(st, a) == [st EXCEPT !.isWriting = FALSE, !.drains[a] = Idle]

\* a drain that takes the newest entry: pop() for shift()
ShiftPop(queue) ==
    [message |-> queue[Len(queue)], rest |-> SubSeq(queue, 1, Len(queue) - 1)]

\* a drain that reads the head and leaves it in the queue
ShiftPeek(queue) == [message |-> Head(queue), rest |-> queue]

\* const message = this.logQueue.shift()
Shift(queue) == [message |-> Head(queue), rest |-> Tail(queue)]

\* while (this.logQueue.length > 0) { shift; await appendFile ... }: one test
\* of the loop condition by activation a, up to the await or to the end
WhileLoop(st, a) ==
    IF Len(st.logQueue) > 0
    THEN LET s == Shift(st.logQueue)
         IN [st EXCEPT !.logQueue = s.rest,
                       !.drains[a] = Activation("append", s.message, 0)]
    ELSE Finally(st, a)

\* the call this.writeLogs(): a new activation runs up to its first await
WriteLogs(st) ==
    LET free == {a \in DrainIds : st.drains[a].pc = "idle"}
    IN IF free = {} THEN st
       ELSE WhileLoop(st, CHOOSE a \in free : \A b \in free : a <= b)

\* a logToFile that starts a drain on every call, whatever isWriting says
LogToFileUnguarded(st, message) ==
    WriteLogs([st EXCEPT !.logQueue = Append(@, message), !.isWriting = TRUE])

\* a logToFile that puts the new line at the head of the queue
LogToFileUnshift(st, message) ==
    LET pushed == [st EXCEPT !.logQueue = <<message>> \o @]
    IN IF ~pushed.isWriting
       THEN WriteLogs([pushed EXCEPT !.isWriting = TRUE])
       ELSE pushed

LogToFile(st, message) ==
    LET pushed == [st EXCEPT !.logQueue = Append(@, message)]
    IN IF ~pushed.isWriting
       THEN WriteLogs([pushed EXCEPT !.isWriting = TRUE])
       ELSE pushed

\* a writeLogs with try/finally and no catch: the rejection leaves writeLogs
WriteLogsNoCatch(st, a) == Finally([st EXCEPT !.unhandled = @ + 1], a)

\* a writeLogs that clears isWriting after the loop instead of in a finally
WriteLogsNoFinally(st, a) ==
    [st EXCEPT !.console = Append(@, ConsoleCall("error", "writeError", 0)),
               !.drains[a] = Idle]

\* a catch that puts the failed line back at the head of the queue
WriteLogsRetry(st, a) ==
    Finally([st EXCEPT !.console = Append(@, ConsoleCall("error", "writeError", 0)),
                       !.logQueue = <<st.drains[a].message>> \o @], a)

\* catch (error) { console.error('Error writing to log file:', error) } finally
WriteLogsCatch(st, a) ==
    Finally([st EXCEPT !.console = Append(@, ConsoleCall("error", "writeError", 0))], a)

\* a checkFileSize without its try/catch: the rejection reaches writeLogs
CheckFileSizeRethrow(st, a) == WriteLogsCatch(st, a)

\* catch (error) { console.error('Error during log rotation:', error) }:
\* checkFileSize returns normally and the loop of writeLogs goes on
CheckFileSizeCatch(st, a) ==
    WhileLoop([st EXCEPT !.console = Append(@, ConsoleCall("error", "rotationError", 0))], a)

\* a size check that takes maxFileSize for kilobytes
NeedsRotationKilobytes(size) == size > maxFileSize * 1024

\* if (stats.size > this.maxFileSize)
NeedsRotation(size) == size > maxFileSize


(***************************************************************************)
(* log and the transport fan-out                                           *)
(***************************************************************************)
\* a comparison with its operands swapped
ShouldLogSwapped(lvl) == IndexOf(levels, level) >= IndexOf(levels, lvl)

\* levels.indexOf(level) >= levels.indexOf(this.level)
ShouldLog(lvl) == IndexOf(levels, lvl) >= IndexOf(levels, level)

\* a console branch that writes every level with console.log
ConsoleMethodLogOnly(lvl) == "log"

\* level === 'error' ? 'error' : level === 'warn' ? 'warn' : 'log'
ConsoleMethod(lvl) ==
    IF lvl = "error" THEN "error" ELSE IF lvl = "warn" THEN "warn" ELSE "log"

RECURSIVE StackTraces(_, _, _)
\* args.forEach(arg => { if (arg instanceof Error) { notice; the error } })
StackTraces(method, line, nErrors) ==
    IF nErrors = 0 THEN <<>>
    ELSE <<[ConsoleCall(method, "stackTrace", line.id)
               EXCEPT !.text = Colored(line.level, <<"Stack trace:">>)],
           ConsoleCall(method, "errorObject", line.id)>>
         \o StackTraces(method, line, nErrors - 1)

\* the console branch: the coloured line, then the stack traces of the Errors
ConsoleTransport(st, line, nErrors) ==
    LET method == ConsoleMethod(line.level)
    IN [st EXCEPT !.console =
            @ \o <<[ConsoleCall(method, "line", line.id)
                       EXCEPT !.text = Colored(line.level, line.text)]>>
              \o StackTraces(method, line, nErrors)]

\* a fan-out that hands the coloured line to the file sink as well
TransportColored(st, transport, line, nErrors) ==
    IF transport = "console" THEN ConsoleTransport(st, line, nErrors)
    ELSE IF transport = "file" /\ filePath # Null
         THEN LogToFile(st, [line EXCEPT !.text = Colored(line.level, line.text)])
    ELSE st

\* the body of this.transports.forEach for one transport
Transport(st, transport, line, nErrors) ==
    IF transport = "console" THEN ConsoleTransport(st, line, nErrors)
    ELSE IF transport = "file" /\ filePath # Null THEN LogToFile(st, line)
    ELSE st

\* a fan-out that stops after the first transport of the array
ForEachFirstOnly(st, ts, line, nErrors) ==
    IF ts = <<>> THEN st ELSE Transport(st, Head(ts), line, nErrors)

RECURSIVE ForEach(_, _, _, _)
\* this.transports.forEach(transport => ...), over the rest ts of the array
ForEach(st, ts, line, nErrors) ==
    IF ts = <<>> THEN st
    ELSE ForEach(Transport(st, Head(ts), line, nErrors), Tail(ts), line, nErrors)

\* a log whose file transport writes with appendFileSync, inside the call
LogSynchronous(lvl, len, nErrors) ==
    LET line == Line(issued + 1, lvl, len)
        toFile == Includes(transports, "file") /\ filePath # Null
    IN /\ constructed
       /\ calls' = calls + 1
       /\ lastCall' = lvl
       /\ IF ShouldLog(lvl)
          THEN /\ issued' = issued + 1
               /\ console' = IF Includes(transports, "console")
                             THEN ConsoleTransport(Cur, line, nErrors).console
                             ELSE console
               /\ liveExists' = (liveExists \/ toFile)
               /\ liveFile' = IF toFile THEN Append(liveFile, line) ELSE liveFile
               /\ appended' = IF toFile THEN Append(appended, line) ELSE appended
          ELSE UNCHANGED <<issued, console, liveExists, liveFile, appended>>
       /\ UNCHANGED <<config, http, sink, archives, clock, dropped, rotationFailures>>

\* log(level, ...args): len is the length of the message, nErrors
\* the number of Error objects among args
Log(lvl, len, nErrors) ==
    /\ constructed
    /\ calls' = calls + 1
    /\ lastCall' = lvl
    /\ IF ShouldLog(lvl)
       THEN /\ issued' = issued + 1
            /\ Commit(ForEach(Cur, transports, Line(issued + 1, lvl, len), nErrors))
       ELSE UNCHANGED <<issued, sink, console>>
    /\ UNCHANGED <<config, http, files, clock, history>>

(***************************************************************************)
(* Completions of the file operations of activation a                      *)
(***************************************************************************)
\* appendFile resolves: the line is in the file, checkFileSize issues stat
AppendOk(a) ==
    /\ drains[a].pc = "append"
    /\ liveExists' = TRUE
    /\ liveFile' = Append(liveFile, drains[a].message)
    /\ appended' = Append(appended, drains[a].message)
    /\ drains' = [drains EXCEPT ![a] = Activation("stat", NoLine, 0)]
    /\ UNCHANGED <<config, http, run, logQueue, isWriting, unhandled, console, archives, clock,
                   calls, lastCall, issued, dropped, rotationFailures>>

\* appendFile rejects: the catch of writeLogs, then its finally
AppendFail(a) ==
    /\ drains[a].pc = "append"
    /\ dropped' = Append(dropped, drains[a].message)
    /\ Commit(WriteLogsCatch(Cur, a))
    /\ UNCHANGED <<config, http, run, files, clock, calls, lastCall, issued, appended,
                   rotationFailures>>

\* stat resolves: rename is issued under the name built from the clock, or
\* checkFileSize returns and the loop goes on
StatOk(a) ==
    /\ drains[a].pc = "stat"
    /\ liveExists
    /\ IF NeedsRotation(Size(liveFile))
       THEN Commit([Cur EXCEPT !.drains[a] = Activation("rename", NoLine, clock)])
       ELSE Commit(WhileLoop(Cur, a))
    /\ UNCHANGED <<config, http, run, files, clock, calls, lastCall, issued, history>>

\* stat rejects: the catch of checkFileSize
StatFail(a) ==
    /\ drains[a].pc = "stat"
    /\ rotationFailures' = rotationFailures + 1
    /\ Commit(CheckFileSizeCatch(Cur, a))
    /\ UNCHANGED <<config, http, run, files, clock, calls, lastCall, issued, appended,
                   dropped>>

\* rename resolves: the file has moved to the archive name (replacing a file
\* of that name), nothing is left at filePath; the loop goes on
RenameOk(a) ==
    /\ drains[a].pc = "rename"
    /\ liveExists
    /\ archives' =
         Append(SelectSeq(archives, LAMBDA f : f.name # drains[a].target),
                [name |-> drains[a].target, lines |-> liveFile])
    /\ liveExists' = FALSE
    /\ liveFile' = <<>>
    /\ Commit(WhileLoop(Cur, a))
    /\ UNCHANGED <<config, http, run, clock, calls, lastCall, issued, history>>

\* rename rejects: the catch of checkFileSize
RenameFail(a) ==
    /\ drains[a].pc = "rename"
    /\ rotationFailures' = rotationFailures + 1
    /\ Commit(CheckFileSizeCatch(Cur, a))
    /\ UNCHANGED <<config, http, run, files, clock, calls, lastCall, issued, appended,
                   dropped>>

\* the wall clock advances by a millisecond
Tick ==
    /\ clock < MaxClock
    /\ clock' = clock + 1
    /\ UNCHANGED <<config, http, run, sink, console, files, calls, lastCall, issued,
                   history>>

(***************************************************************************)
(* The HTTP instrumentation: setupAutoRequestLogging, logRequest           *)
(***************************************************************************)
\* this Logger among the Loggers of the process
This == 1
LoggerIds == 1..MaxLoggers

\* typeof process !== 'undefined' && process.env.NODE_ENV !== 'test'
ShouldInstall(env) == env.process /\ env.nodeEnv # "test"

\* the try block throws: require('http') fails. Reading a createServer that
\* is undefined and assigning the wrapper throw nothing.
InstallThrows(env) == env.module = "missing"

\* http.createServer = (...args) => { ... } by Logger k, on the process h
Install(h, k) ==
    IF ShouldInstall(h.env) /\ ~InstallThrows(h.env)
    THEN [h EXCEPT !.wrappers = Append(@, k)]
    ELSE h

RECURSIVE CreateServerVia(_)
\* The 'request' listeners of the server that http.createServer returns
\* through the wrappers ws: the outermost wrapper calls the one it replaced,
\* down to the original, and attaches its listener to what comes back.
CreateServerVia(ws) ==
    IF ws = <<>> THEN <<>>
    ELSE Append(CreateServerVia(SubSeq(ws, 1, Len(ws) - 1)), ws[Len(ws)])

\* const message = `${method} ${url} ${status} ${responseTime}` with
\* responseTime: `${responseTime}ms`
RequestMessage(req, responseTime) ==
    req.method \o " " \o req.url \o " " \o ToString(req.statusCode) \o " "
        \o ToString(responseTime) \o "ms"

\* the requestLog object of logRequest
RequestLog(req, responseTime) ==
    [method |-> req.method, url |-> req.url, status |-> req.statusCode,
     responseTime |-> ToString(responseTime) \o "ms", userAgent |-> req.userAgent,
     ip |-> IF req.ip # "" THEN req.ip ELSE req.remoteAddress]

\* no requestLog: the info call passes the message alone
NoDetail ==
    [method |-> "", url |-> "", status |-> 0, responseTime |-> "", userAgent |-> "",
     ip |-> ""]

\* a logRequest that logs the detail first
LogRequestDetailFirst(req, responseTime) ==
    <<[level |-> "debug", message |-> "Request Details:",
       detail |-> RequestLog(req, responseTime)],
      [level |-> "info", message |-> RequestMessage(req, responseTime),
       detail |-> NoDetail]>>

\* logRequest(req, res, responseTime): this.info(message), then
\* this.debug('Request Details:', JSON.stringify(requestLog, null, 2))
LogRequest(req, responseTime) ==
    <<[level |-> "info", message |-> RequestMessage(req, responseTime),
       detail |-> NoDetail],
      [level |-> "debug", message |-> "Request Details:",
       detail |-> RequestLog(req, responseTime)]>>

\* one logRequest call, as recorded in http.calls; request is 0 for a direct call
RequestCall(k, r, req, responseTime) ==
    [logger |-> k, request |-> r, req |-> req, responseTime |-> responseTime]

RECURSIVE FinishListeners(_, _, _, _)
\* the 'finish' listeners of a response run in the order they were attached:
\* the logRequest calls they make
FinishListeners(hooks, r, req, responseTime) ==
    IF hooks = <<>> THEN <<>>
    ELSE <<RequestCall(Head(hooks), r, req, responseTime)>>
         \o FinishListeners(Tail(hooks), r, req, responseTime)

RECURSIVE LogCallsOf(_)
\* the log calls that these logRequest calls make on this Logger
LogCallsOf(cs) ==
    IF cs = <<>> THEN <<>>
    ELSE (IF Head(cs).logger = This
          THEN LogRequest(Head(cs).req, Head(cs).responseTime) ELSE <<>>)
         \o LogCallsOf(Tail(cs))

\* the direct logRequest calls made so far
Manual == Cardinality({i \in 1..Len(http.calls) : http.calls[i].request = 0})

\* the synchronous code of the process is not running
Quiet == ~setupPending /\ todo = <<>>

\* the end of the constructor: if (this.httpRequest) this.setupAutoRequestLogging()
Setup ==
    /\ setupPending
    /\ setupPending' = FALSE
    /\ IF ShouldInstall(http.env) /\ InstallThrows(http.env)
       THEN /\ Log("warn", MaxMsgLen, 1)
            /\ UNCHANGED <<todo, made>>
       ELSE /\ http' = Install(http, This)
            /\ UNCHANGED <<config, sink, console, files, clock, calls, lastCall, issued,
                           history, todo, made>>

\* another Logger of the process is constructed with httpRequest: true
ConstructOther(k) ==
    /\ Quiet
    /\ k # This
    /\ \A i \in 1..Len(http.wrappers) : http.wrappers[i] # k
    /\ http' = Install(http, k)
    /\ UNCHANGED <<config, sink, console, files, clock, calls, lastCall, issued, history,
                   run>>

\* the application calls http.createServer(...). With no wrapper installed
\* and no createServer in the module there is nothing to call; with a
\* wrapper, originalCreateServer.apply throws on undefined.
CreateServer ==
    /\ Quiet
    /\ http.env.module # "missing"
    /\ Len(http.servers) + http.throws < MaxServers
    /\ IF http.env.module = "noCreateServer"
       THEN /\ http.wrappers # <<>>
            /\ http' = [http EXCEPT !.throws = @ + 1]
       ELSE http' = [http EXCEPT
                        !.servers = Append(@, [hooks |-> CreateServerVia(http.wrappers)])]
    /\ UNCHANGED <<config, sink, console, files, clock, calls, lastCall, issued, history,
                   run>>

\* server s emits 'request': each listener notes the time and attaches its
\* 'finish' listener to the response
Request(s, req) ==
    /\ Quiet
    /\ s \in 1..Len(http.servers)
    /\ Len(http.requests) + Manual < MaxRequests
    /\ http' = [http EXCEPT !.requests =
                    Append(@, [server |-> s, req |-> req, start |-> clock,
                               finished |-> FALSE])]
    /\ UNCHANGED <<config, sink, console, files, clock, calls, lastCall, issued, history,
                   run>>

\* the response of request r emits 'finish': every listener computes the
\* response time and calls logRequest on its Logger
Finish(r) ==
    /\ Quiet
    /\ r \in 1..Len(http.requests)
    /\ ~http.requests[r].finished
    /\ LET q == http.requests[r]
           cs == FinishListeners(http.servers[q.server].hooks, r, q.req, clock - q.start)
       IN /\ http' = [http EXCEPT !.requests[r].finished = TRUE, !.calls = @ \o cs]
          /\ todo' = LogCallsOf(cs)
    /\ UNCHANGED <<config, sink, console, files, clock, calls, lastCall, issued, history,
                   setupPending, made>>

\* the application calls logger.logRequest(req, res, responseTime) itself
ManualLogRequest(req, responseTime) ==
    /\ Quiet
    /\ constructed
    /\ Len(http.requests) + Manual < MaxRequests
    /\ LET cs == <<RequestCall(This, 0, req, responseTime)>>
       IN /\ http' = [http EXCEPT !.calls = @ \o cs]
          /\ todo' = LogCallsOf(cs)
    /\ UNCHANGED <<config, sink, console, files, clock, calls, lastCall, issued, history,
                   setupPending, made>>

\* the next log call of the running logRequest
LogRequestStep ==
    /\ todo # <<>>
    /\ Log(Head(todo).level, 0, 0)
    /\ todo' = Tail(todo)
    /\ made' = Append(made, [call |-> Head(todo),
                             line |-> IF ShouldLog(Head(todo).level)
                                      THEN issued + 1 ELSE 0])
    /\ UNCHANGED setupPending

(***************************************************************************)
(* Specifications                                                          *)
(***************************************************************************)
\* a file operation of some activation completes
Complete ==
    \E a \in DrainIds :
        \/ AppendOk(a)
        \/ AppendFail(a)
        \/ StatOk(a)
        \/ StatFail(a)
        \/ RenameOk(a)
        \/ RenameFail(a)

\* The file sink: a Logger with the file transport, info-level calls whose
\* lines differ in length, every outcome of every file operation, the clock.
Init ==
    \E options \in SinkOptions, dirExists \in BOOLEAN, mkdirOk \in BOOLEAN :
        Constructor(options, dirExists, mkdirOk) /\ http = Process(NodeEnv)

Call ==
    /\ calls < MaxCalls
    /\ \E lvl \in SinkLevels, len \in 0..MaxMsgLen : Log(lvl, len, 0)
    /\ UNCHANGED run

Next == Call \/ Complete \/ Tick

Spec == Init /\ [][Next]_vars

\* Node completes every file operation it was handed: each pending
\* completion eventually happens. Nothing obliges the application to call
\* log again, and the clock need not matter.
FairSpec == Spec /\ WF_vars(Complete)

\* The dispatcher: every configuration, every level, calls with and without
\* Error arguments.
DispatchInit ==
    \E options \in Options, dirExists \in BOOLEAN, mkdirOk \in BOOLEAN :
        Constructor(options, dirExists, mkdirOk) /\ http = Process(NodeEnv)

DispatchCall ==
    /\ calls < MaxDispatchCalls
    /\ \E lvl \in LogLevels, nErrors \in 0..1 : Log(lvl, 0, nErrors)
    /\ UNCHANGED run

DispatchNext == DispatchCall \/ Complete

DispatchSpec == DispatchInit /\ [][DispatchNext]_vars

\* The HTTP instrumentation: a console Logger whose constructor is about to
\* run its httpRequest set-up, in every environment; other Loggers, servers,
\* requests and responses, direct logRequest calls.
HttpEnvs ==
    {Env(TRUE, "production", "ok"), Env(TRUE, "test", "ok"),
     Env(FALSE, "production", "ok"), Env(TRUE, "production", "missing"),
     Env(TRUE, "production", "noCreateServer")}

HttpInit ==
    \E options \in HttpOptions, env \in HttpEnvs :
        Constructor(options, TRUE, TRUE) /\ http = Process(env)

HttpNext ==
    \/ Setup
    \/ \E k \in LoggerIds : ConstructOther(k)
    \/ CreateServer
    \/ \E s \in 1..MaxServers, req \in HttpRequests : Request(s, req)
    \/ \E r \in 1..MaxRequests : Finish(r)
    \/ \E req \in HttpRequests, t \in ManualTimes : ManualLogRequest(req, t)
    \/ LogRequestStep
    \/ Tick

HttpSpec == HttpInit /\ [][HttpNext]_vars

\* The lines: every level, error calls with an Error argument, the default
\* and a custom template, on the console and in a rotating file.
TemplateInit ==
    \E options \in TemplateOptions :
        Constructor(options, TRUE, TRUE) /\ http = Process(NodeEnv)

TemplateCall ==
    /\ calls < MaxDispatchCalls
    /\ \E lvl \in TemplateLevels : Log(lvl, 1, IF lvl = "error" THEN 1 ELSE 0)
    /\ UNCHANGED run

TemplateNext == TemplateCall \/ Complete \/ Tick

TemplateSpec == TemplateInit /\ [][TemplateNext]_vars

\* The formatter on its own: one direct call of format with any template
\* and any data object.
FormatInit ==
    \E options \in HttpOptions :
        /\ options.httpRequest = Absent
        /\ options.level = Absent
        /\ Constructor(options, TRUE, TRUE)
        /\ http = Process(NodeEnv)

FormatNext == FormatCall

FormatSpec == FormatInit /\ [][FormatNext]_vars



(***************************************************************************)
(* Properties                                                              *)
(***************************************************************************)
\* the position of a level in the order debug < info < warn < error
Rank(lvl) ==
    CASE lvl = "debug" -> 0
      [] lvl = "info" -> 1
      [] lvl = "warn" -> 2
      [] lvl = "error" -> 3
      [] OTHER -> -1

Known(lvl) == lvl \in {"debug", "info", "warn", "error"}

\* how many entries of seq satisfy Test
Count(seq, Test(_)) == Cardinality({i \in 1..Len(seq) : Test(seq[i])})

RECURSIVE Flatten(_)
\* the lines of the archives, in rotation order
Flatten(fs) == IF fs = <<>> THEN <<>> ELSE Head(fs).lines \o Flatten(Tail(fs))

\* what is on disk: the archives in rotation order, then the live file
FileLines == Flatten(archives) \o liveFile

\* the lines appear in the order of the log calls that produced them
InCallOrder(lines) == \A i, j \in 1..Len(lines) : i < j => lines[i].id < lines[j].id

\* the lines some activation has shifted and not yet seen appended
Shifted == {drains[a].message : a \in {b \in DrainIds : drains[b].pc = "append"}}

\* the line of call id waits in the queue or for the completion of its append
Pending(id) ==
    \/ \E i \in 1..Len(logQueue) : logQueue[i].id = id
    \/ \E m \in Shifted : m.id = id

\* the line of call id was appended, or dropped because its append failed
Settled(id) ==
    \/ \E i \in 1..Len(appended) : appended[i].id = id
    \/ \E i \in 1..Len(dropped) : dropped[i].id = id

\* C1: at most one activation of writeLogs is active at any time, so at most
\* one file operation of the sink is in flight; a log call made while a drain
\* is active starts none.
C1_SingleDrain ==
    /\ Cardinality(Active(drains)) <= 1
    /\ Cardinality(InFlight(drains)) <= 1

\* C1 witness: log calls arrived while the drain was at work: it has appended
\* a line, has an operation in flight, and two more lines wait in the queue.
C1_Witness ==
    /\ Cardinality(Active(drains)) = 1
    /\ Len(appended) >= 1
    /\ Len(logQueue) >= 2

\* C2: the lines on disk (archives in rotation order, then the live file) are
\* in the order in which their log calls were issued, and so is the sequence
\* of successful appends.
C2_WriteOrder == InCallOrder(FileLines) /\ InCallOrder(appended)

\* C2 witness: three lines were appended around a rotation, after log calls
\* that piled up behind a running drain.
C2_Witness ==
    /\ Len(archives) >= 1
    /\ liveFile # <<>>
    /\ Len(appended) >= 3
    /\ calls = MaxCalls

\* C5: as long as no stat and no rename has failed, the live file holds at
\* most maxFileSize bytes whenever an append is in flight: a file that an
\* append left larger is renamed before the next append is issued.
C5_RotateBeforeNextAppend ==
    rotationFailures = 0 =>
        \A a \in DrainIds : drains[a].pc = "append" => Size(liveFile) <= maxFileSize

\* C5 witness: an append left the file over the limit, the file was renamed,
\* and the next append is in flight.
C5_Witness ==
    /\ rotationFailures = 0
    /\ \E i \in 1..Len(archives) : Size(archives[i].lines) > maxFileSize
    /\ \E a \in DrainIds : drains[a].pc = "append"


\* the console calls that printed the formatted line of call id
ConsoleLines(id) == Count(console, LAMBDA c : c.kind = "line" /\ c.id = id)

\* the entries the file sink was given for call id, wherever they are now
FileEntries(id) ==
    Count(logQueue, LAMBDA m : m.id = id)
    + Cardinality({a \in DrainIds : drains[a].pc = "append" /\ drains[a].message.id = id})
    + Count(appended, LAMBDA m : m.id = id)
    + Count(dropped, LAMBDA m : m.id = id)

\* C3: a log call whose level ranks below the threshold (both among the four
\* levels) changes nothing: console, queue, isWriting, the activations, the
\* files and the count of admitted calls are as before, however often it is
\* repeated.
C3_BelowThresholdNoEffect ==
    [][(/\ calls' = calls + 1
        /\ Known(lastCall') /\ Known(level)
        /\ Rank(lastCall') < Rank(level))
       => UNCHANGED <<sink, console, files, issued, history>>]_vars

\* C3 witness: with a drain at work for an admitted line, a call below the
\* threshold was made and left no trace.
C3_Witness ==
    /\ calls = 2 /\ issued = 1
    /\ Known(lastCall) /\ Known(level) /\ Rank(lastCall) < Rank(level)
    /\ isWriting
    /\ Len(console) = 1

\* C4 (as claimed): every admitted call has exactly one console write of its
\* line when 'console' is among the transports and exactly one entry in the
\* file sink when 'file' is, for every value of transports and filePath.
C4_OneLinePerTransport ==
    \A id \in 1..issued :
        /\ Includes(transports, "console") => ConsoleLines(id) = 1
        /\ Includes(transports, "file") => FileEntries(id) = 1

\* C6 (as claimed): with every file operation completing and no further log
\* call, each pending line is eventually appended or dropped by the failure
\* of its own append.
C6_EveryLineSettles == \A id \in 1..MaxCalls : Pending(id) ~> Settled(id)

\* C7: isWriting is true exactly while an activation of writeLogs exists, so
\* it is false once a drain has ended, on a failure too; a line handed to an
\* idle sink starts a drain whose append is in flight, with the line pending;
\* and a drain leaves lines in the queue only by ending on a failed append.
C7_NotStuck ==
    /\ [](isWriting <=> Active(drains) # {})
    /\ [][(/\ issued' = issued + 1
           /\ ~isWriting
           /\ Includes(transports, "file") /\ filePath # Null)
          => (/\ isWriting'
              /\ \E a \in DrainIds : drains'[a].pc = "append"
              /\ Pending(issued)')]_vars
    /\ [][(Active(drains) # {} /\ Active(drains') = {} /\ logQueue' # <<>>)
          => Len(dropped') = Len(dropped) + 1]_vars

\* C7 witness: an append failed and a rotation failed, the drain has ended,
\* and a line of a later call was appended by a new drain.
C7_Witness ==
    /\ dropped # <<>>
    /\ rotationFailures > 0
    /\ ~isWriting
    /\ \E i \in 1..Len(appended) : appended[i].id > dropped[1].id

\* C8: no activation of writeLogs ends in a rejected promise, and every
\* failure of the file sink is reported by one console.error call: one
\* 'Error writing to log file' per failed append, one 'Error during log
\* rotation' per failed stat or rename. Every failure arrives in a completion,
\* after the log call that caused the operation has returned.
C8_FailuresOnlyReported ==
    /\ unhandled = 0
    /\ Count(console, LAMBDA c : c.kind = "writeError") = Len(dropped)
    /\ Count(console, LAMBDA c : c.kind = "rotationError") = rotationFailures
    /\ \A i \in 1..Len(console) :
          console[i].kind \in {"writeError", "rotationError"} => console[i].method = "error"

\* C8 witness: an append, and a stat or rename, have failed, and the drains
\* they belonged to are over.
C8_Witness ==
    /\ Len(dropped) >= 1
    /\ rotationFailures >= 1
    /\ Active(drains) = {}
    /\ calls >= 2

\* C9: each transport of an admitted call gets the line whatever happens to
\* the other: with 'console' enabled the line is printed once or more, also
\* when its append failed; with 'file' enabled and a path the sink holds an
\* entry for it, in either order of the transports array.
C9_IndependentFanOut ==
    \A id \in 1..issued :
        /\ Includes(transports, "console") => ConsoleLines(id) >= 1
        /\ (Includes(transports, "file") /\ filePath # Null) => FileEntries(id) >= 1

\* C9 witness: the file transport comes first in the array, the append of a
\* line failed, and the console has the line.
C9_Witness ==
    /\ transports = <<"file", "console">>
    /\ \E i \in 1..Len(dropped) : ConsoleLines(dropped[i].id) = 1

\* C10 (as claimed): no instance exists with 'file' among the transports and
\* no file path: the constructor failed.
C10_FileTransportNeedsPath ==
    (Includes(transports, "file") /\ filePath = Null) => ~constructed


\* C11 (as claimed): a log call whose level is none of the four levels has
\* no effect on any transport, whatever the threshold is.
C11_UnknownLevelNeverAdmitted ==
    [][(calls' = calls + 1 /\ ~Known(lastCall'))
       => UNCHANGED <<sink, console, files, issued, history>>]_vars

\* the line of call id is in the pending queue
InQueue(id) == \E i \in 1..Len(logQueue) : logQueue[i].id = id

\* C12: a log call completes no append: it leaves the files and the record
\* of settled appends as they were, and the line it handed to the file sink
\* is still pending when the call returns.
C12_LogDoesNotBlock ==
    [][(calls' = calls + 1)
       => (/\ UNCHANGED <<files, history>>
           /\ (issued' = issued + 1 /\ Includes(transports, "file") /\ filePath # Null)
                 => (Pending(issued)' /\ ~Settled(issued)'))]_vars

\* C12 witness: every call of the behaviour has returned and none of their
\* lines has reached the disk or failed yet.
C12_Witness ==
    /\ calls = MaxCalls /\ issued = MaxCalls
    /\ appended = <<>> /\ dropped = <<>> /\ ~liveExists
    /\ \A id \in 1..issued : Pending(id)

C14_AtMostOnceNoRetry ==
    \A id \in 1..issued :
        /\ Count(appended, LAMBDA m : m.id = id) <= 1
        /\ Count(dropped, LAMBDA m : m.id = id) <= 1
        /\ (\E i \in 1..Len(dropped) : dropped[i].id = id)
              => (~Pending(id) /\ Count(appended, LAMBDA m : m.id = id) = 0)

\* C14 witness: a line was dropped, later drains appended two other lines
\* and ended, and the queue is empty.
C14_Witness ==
    /\ Len(dropped) >= 1
    /\ Len(appended) >= 2
    /\ ~isWriting
    /\ logQueue = <<>>

\* C15 (as claimed): while the append of a line is in flight the line is
\* still in the queue.
C15_InQueueWhileInFlight ==
    \A a \in DrainIds : drains[a].pc = "append" => InQueue(drains[a].message.id)

\* the line of call id leaves the queue in this step: it was queued, or is
\* pushed by this step, and is not queued afterwards
Leaves(id) ==
    /\ \/ InQueue(id)
       \/ (issued' = id /\ issued = id - 1 /\ Includes(transports, "file") /\ filePath # Null)
    /\ ~InQueue(id)'

\* C15 (amended): a line leaves the queue only by the drain's shift, one line
\* per step, at the moment its append is issued; while the append is in
\* flight the line is held by the drain and is not in the queue.
C15_ShiftedBeforeAppend ==
    /\ [](\A a \in DrainIds : drains[a].pc = "append" => ~InQueue(drains[a].message.id))
    /\ [][/\ \A id \in 1..issued' :
                Leaves(id) => \E a \in DrainIds :
                                 /\ drains[a].pc # "append"
                                 /\ drains'[a].pc = "append"
                                 /\ drains'[a].message.id = id
          /\ Cardinality({id \in 1..issued' : Leaves(id)}) <= 1]_vars

\* C15 witness: an append is in flight behind an earlier successful one while
\* other lines wait in the queue.
C15_Witness ==
    /\ \E a \in DrainIds : drains[a].pc = "append" /\ drains[a].message.id >= 2
    /\ logQueue # <<>>
    /\ Len(appended) >= 1

\* C16 (as claimed): whenever no drain is active the pending queue is empty.
C16_IdleMeansEmpty == Active(drains) = {} => logQueue = <<>>

\* the logRequest calls that request r has triggered
CallsOf(r) == Count(http.calls, LAMBDA c : c.request = r)

\* C17 (as claimed): installing the instrumentation is idempotent; however
\* many Loggers of the process enabled it, a server carries at most one hook
\* and a finished request has produced at most one logRequest call.
C17_InstallIdempotent ==
    /\ \A s \in 1..Len(http.servers) : Len(http.servers[s].hooks) <= 1
    /\ \A r \in 1..Len(http.requests) : CallsOf(r) <= 1

\* this Logger's installation failed: it was attempted and the http module
\* is missing or has no createServer
InstallFailed ==
    /\ httpRequest
    /\ ~setupPending
    /\ ShouldInstall(http.env)
    /\ http.env.module # "ok"

\* C18 (as claimed): when the installation fails the Logger is constructed
\* all the same, a warning line has been written to the console, and no call
\* of http.createServer has thrown.
C18_InstallFailureHarmless ==
    InstallFailed =>
        /\ constructed
        /\ \E i \in 1..Len(console) : console[i].method = "warn" /\ console[i].kind = "line"
        /\ http.throws = 0

\* C19 (as claimed): with httpRequest enabled, a request whose response has
\* finished has triggered exactly one logRequest call and a request whose
\* response has not finished has triggered none.
C19_FinishedRequestLoggedOnce ==
    (httpRequest /\ ~setupPending) =>
        \A r \in 1..Len(http.requests) :
            CallsOf(r) = (IF http.requests[r].finished THEN 1 ELSE 0)

\* the logRequest calls made on this Logger, in order
ThisCalls == SelectSeq(http.calls, LAMBDA c : c.logger = This)

\* the client address a request shows
ClientAddress(req) == IF req.ip = "" THEN req.remoteAddress ELSE req.ip

\* C20: every logRequest call on this Logger makes two log calls, first an
\* info call whose message is 'METHOD URL STATUS ELAPSEDms', then a debug
\* call carrying the request detail; each goes through log: it is admitted
\* exactly when its level reaches the threshold, and an admitted one is a
\* new line written once to the console.
C20_InfoThenDebug ==
    /\ Len(made) + Len(todo) = 2 * Len(ThisCalls)
    /\ \A i \in 1..Len(made) :
          LET c == ThisCalls[(i + 1) \div 2]
              m == made[i]
              elapsed == ToString(c.responseTime) \o "ms"
          IN /\ IF i % 2 = 1
                THEN /\ m.call.level = "info"
                     /\ m.call.message =
                            c.req.method \o " " \o c.req.url \o " "
                                \o ToString(c.req.statusCode) \o " " \o elapsed
                ELSE /\ m.call.level = "debug"
                     /\ m.call.detail.method = c.req.method
                     /\ m.call.detail.url = c.req.url
                     /\ m.call.detail.status = c.req.statusCode
                     /\ m.call.detail.responseTime = elapsed
                     /\ m.call.detail.userAgent = c.req.userAgent
                     /\ m.call.detail.ip = ClientAddress(c.req)
             /\ (m.line > 0) <=> (Rank(m.call.level) >= Rank(level))
             /\ m.line > 0 =>
                   /\ m.line <= issued
                   /\ ConsoleLines(m.line) = 1
                   /\ \A j \in 1..(i - 1) : made[j].line < m.line

\* C20 witness: a direct logRequest call for GET /test, status 200, 100 ms
\* on a Logger with threshold debug wrote its info line and then its detail
\* line.
C20_Witness ==
    \E i \in 1..(Len(made) - 1) :
        /\ made[i].call.message = "GET /test 200 100ms"
        /\ made[i].line > 0
        /\ made[i + 1].call.level = "debug"
        /\ made[i + 1].call.detail.ip = "127.0.0.1"
        /\ made[i + 1].line = made[i].line + 1
        /\ todo = <<>>

\* C21 (as claimed): when the rename of a rotation has succeeded, a file
\* exists at filePath, whether or not a further line is pending.
C21_FileAtPathAfterRotation ==
    [][\A a \in DrainIds :
          (drains[a].pc = "rename" /\ drains'[a].pc # "rename"
              /\ rotationFailures' = rotationFailures)
          => liveExists']_vars

\* lines are stranded: they wait in the queue and no drain is active
Stranded == Active(drains) = {} /\ logQueue # <<>>

\* C27: lines left in the queue by a drain that ended on an append failure
\* stay there in call order until the next log call; that call's drain
\* takes the oldest of them first and the new line goes behind them, so
\* they are appended before it.
C27_StrandedDrainedFirst ==
    /\ [](/\ InCallOrder(logQueue)
          /\ \A m \in Shifted : \A i \in 1..Len(logQueue) : m.id < logQueue[i].id)
    /\ [][Stranded =>
             \/ logQueue' = logQueue
             \/ /\ issued' = issued + 1
                /\ \E a \in DrainIds :
                      /\ drains'[a].pc = "append"
                      /\ drains'[a].message = Head(logQueue)
                /\ Len(logQueue') = Len(logQueue)
                /\ SubSeq(logQueue', 1, Len(logQueue) - 1) = Tail(logQueue)
                /\ logQueue'[Len(logQueue')].id = issued']_vars

\* C27 witness: the second line was logged before the append of the first
\* failed, so it was stranded; the third call's drain appended it and then
\* the third line.
C27_Witness ==
    /\ Len(dropped) = 1 /\ dropped[1].id = 1
    /\ Len(appended) = 2 /\ appended[1].id = 2 /\ appended[2].id = 3
    /\ \E i, j \in 1..Len(console) :
          /\ i < j
          /\ console[i].kind = "line" /\ console[i].id = 2
          /\ console[j].kind = "writeError"

\* the stream a console method of Node writes to
Stream(method) == IF method \in {"error", "warn"} THEN "stderr" ELSE "stdout"

\* C23: every console write of an admitted call of a known level goes to
\* one stream, the primary line and the stack-trace writes alike: stderr
\* for error and warn, stdout for debug and info.
C23_ConsoleRouting ==
    [][(issued' = issued + 1 /\ Known(lastCall')) =>
          \A k \in (Len(console) + 1)..Len(console') :
              /\ console'[k].id = issued'
              /\ Stream(console'[k].method) =
                    (IF lastCall' \in {"error", "warn"} THEN "stderr" ELSE "stdout")]_vars

\* C23 witness: a warn call with an Error argument wrote its line and its
\* stack trace to stderr, and the info call after it wrote to stdout.
C23_Witness ==
    /\ lastCall = "info"
    /\ Len(console) = 4
    /\ console[1].kind = "line" /\ Stream(console[1].method) = "stderr"
    /\ console[2].kind = "stackTrace" /\ Stream(console[2].method) = "stderr"
    /\ console[3].kind = "errorObject" /\ Stream(console[3].method) = "stderr"
    /\ console[4].kind = "line" /\ console[4].id = 2
    /\ Stream(console[4].method) = "stdout"

\* data without the field of this name
Without(data, name) == [k \in DOMAIN data \ {name} |-> data[k]]

\* C22 (as claimed): a call of format never fails; a template without a
\* brace comes back unchanged; a template that is one placeholder yields the
\* field's value when the field is present, the empty string included, and
\* the empty string when it is absent; a field that no placeholder names
\* makes no difference.
C22_FormatTotal ==
    LET c == http.formatCall
    IN c.made =>
          /\ ~c.result.threw
          /\ (\A i \in 1..Len(c.template) : c.template[i] \notin {"{", "}"})
                => c.result.value = c.template
          /\ c.template = <<"{", "a", "}">>
                => c.result.value = (IF "a" \in DOMAIN c.data THEN c.data["a"] ELSE <<>>)
          /\ c.template = <<"{", "a", "b", "}">>
                => c.result.value = (IF "ab" \in DOMAIN c.data THEN c.data["ab"] ELSE <<>>)
          /\ \A name \in DataKeys :
                (\A i \in 1..Len(c.template) : c.template[i] # "}")
                   => c.result = Format(c.template, Without(c.data, name))

\* the text holds a colour code or the reset code
HasColor(text) ==
    \E i \in 1..Len(text) :
        text[i] \in {colors.debug, colors.info, colors.warn, colors.error, colors.reset}

\* every line that was handed to the file sink
SinkLines ==
    {logQueue[i] : i \in 1..Len(logQueue)} \cup Shifted
        \cup {appended[i] : i \in 1..Len(appended)}
        \cup {dropped[i] : i \in 1..Len(dropped)}
        \cup {FileLines[i] : i \in 1..Len(FileLines)}

\* C24 (as claimed): only the primary console write of a call is coloured,
\* and no line of the file sink holds a colour code.
C24_ColorOnlyPrimaryWrite ==
    /\ \A i \in 1..Len(console) : HasColor(console[i].text) => console[i].kind = "line"
    /\ \A l \in SinkLines : ~HasColor(l.text)

\* C24 (amended): the console writes that are coloured are the primary line
\* and the 'Stack trace:' notices; the primary line is the formatted line
\* between the colour of its level and the reset code; the line handed to
\* the file sink is the formatted line itself, with no colour code, for
\* every level.
C24_ColorNeverInFile ==
    /\ \A i \in 1..Len(console) :
          HasColor(console[i].text) => console[i].kind \in {"line", "stackTrace"}
    /\ \A l \in SinkLines :
          /\ ~HasColor(l.text)
          /\ format = DefaultFormat =>
                \E t \in 0..clock :
                    l.text = <<"[", ToString(t), "]", " ", l.level, ":", " ", "x">>
          /\ \A i \in 1..Len(console) :
                (console[i].kind = "line" /\ console[i].id = l.id) =>
                    console[i].text = <<colors[l.level]>> \o l.text \o <<colors.reset>>

\* C24 witness: an error call with an Error argument wrote its red line and
\* a red 'Stack trace:' notice to the console, and its line was appended to
\* the file without the colour codes; a debug line is in the file as well.
C24_Witness ==
    /\ \E i \in 1..Len(console) :
          /\ console[i].kind = "stackTrace"
          /\ console[i].text = <<colors.error, "Stack trace:", colors.reset>>
          /\ \E j \in 1..Len(appended) :
                /\ appended[j].id = console[i].id
                /\ appended[j].level = "error"
                /\ appended[j].text # <<>>
    /\ \E j \in 1..Len(appended) : appended[j].level = "debug"

\* the text renders the metadata value between brackets: '[user-service]'
RendersService(text) ==
    \E i \in 1..(Len(text) - 2) :
        text[i] = "[" /\ text[i + 1] = "user-service" /\ text[i + 2] = "]"

\* C25 (as claimed): on a Logger constructed with the format
\* '[{timestamp}] [{level}] [{service}] {message}' and the metadata
\* {service: 'user-service'}, every formatted line renders '[user-service]',
\* on the console and in the file sink.
C25_MetadataRendered ==
    format = ServiceFormat =>
        /\ \A l \in SinkLines : RendersService(l.text)
        /\ \A i \in 1..Len(console) :
              console[i].kind = "line" => RendersService(console[i].text)

\* C26 (as claimed): every line whose append succeeded is in exactly one
\* file, the live file or one archive, in every later state.
C26_RotationKeepsLines ==
    \A j \in 1..Len(appended) :
        Count(FileLines, LAMBDA l : l.id = appended[j].id) = 1

====
